---- MODULE Spec2Model ----
(***************************************************************************)
(* Model of the PAS inventory backend: the team registry                   *)
(* (controllers/teamcontroller.js), the rack store (rackcontroller), the   *)
(* export snapshots (controllers/exportedrackcontroller.js) and the master *)
(* description upload ledger (controllers/master_controller.js and         *)
(* controllers/uploadcontroller.js).                                       *)
(*                                                                         *)
(* A request handler of the team, rack and snapshot controllers is one     *)
(* action: it reads the collections, decides the HTTP status and writes.   *)
(* The response of the last handled request is kept in resp.  The upload   *)
(* ledger handlers are modelled step by step (one store call per step),    *)
(* with the store's transaction buffering their writes until commit.       *)
(*                                                                         *)
(* Fields that no decision of the code depends on (location text,          *)
(* description, isNewSite, nextQty, prices) are left out of the records.   *)
(***************************************************************************)
EXTENDS Integers, Sequences, FiniteSets, TLC

(***************************************************************************)
(* Bounds and domains                                                      *)
(***************************************************************************)
MaxTeams == 2
MaxRacks == 2
MaxSnaps == 1
MaxUploads == 2
MaxEntries == 2

None == "none"

Admins == {"A"}
Leaders == {"L1", "L2"}
Members == {"M1"}
Users == Admins \cup Leaders \cup Members
\* an id that resolves to no user
GhostUser == "X"
UserIds == Users \cup {GhostUser}

Sites == {"S1", "S2"}
TeamIds == 1..MaxTeams

\* User.role (roles are immutable per record)
Role(u) ==
  IF u \in Admins THEN "admin"
  ELSE IF u \in Leaders THEN "team_leader"
  ELSE IF u \in Members THEN "team_member"
  ELSE None

VARIABLES
  teams,       \* Team collection: TeamIds -> team document or NoTeam
  nextTeamId,  \* the next fresh Team _id
  racks,       \* Rack collection: RackIds -> rack document or NoRack
  nextRackId,  \* the next fresh Rack _id
  snaps,       \* ExportedRackSnapshot collection, in insertion order
  md,          \* MasterDescription collection (committed rows)
  ledger,      \* UploadMetadata collection (committed): FileIds -> entry or NoMeta
  nextFileId,  \* the next fresh UploadMetadata _id
  procs,       \* the upload ledger requests in flight
  flight,      \* the team and rack requests in flight that are followed step by step
  resp         \* the response to the last request handled

vars ==
  <<teams, nextTeamId, racks, nextRackId, snaps, md, ledger, nextFileId, procs, flight, resp>>

rackVars == <<racks, nextRackId>>
uploadVars == <<md, ledger, nextFileId, procs>>

\* the slot of a Team _id that resolves to no document
NoTeam == [siteName |-> None, teamLeader |-> None, members |-> <<>>, status |-> "absent"]

Exists(t) == t \in TeamIds /\ teams[t].status # "absent"

Range(s) == {s[i] : i \in DOMAIN s}

\* the response envelope: the handler, the principal, the status code, the
\* target ids of the request and the list a read returns
Response(op, u, code, t, r, arg, rows) ==
  [op |-> op, user |-> u, code |-> code, team |-> t, rack |-> r, arg |-> arg, rows |-> rows]

\* no request is being handled
Idle == Response("idle", None, 0, 0, 0, None, <<>>)

(***************************************************************************)
(* Team registry                                                           *)
(***************************************************************************)
isTeamLeaderOrAdmin(u, team) ==
  \/ Role(u) = "admin"
  \/ (Role(u) = "team_leader" /\ team.teamLeader # None /\ team.teamLeader = u)

\* Team schema: siteName is unique among the Active teams
SiteNameUnique(ts) ==
  \A a, b \in TeamIds :
    (a # b /\ ts[a].status = "Active" /\ ts[b].status = "Active")
      => ts[a].siteName # ts[b].siteName

\* a members field of a request body: given is FALSE when the body has none.
\* members check shared by createTeam and updateTeam: User.find({_id: {$in: members}})
\* returns one document per distinct existing id
MembersCode(members) ==
  IF ~members.given \/ Len(members.ids) = 0 THEN 200
  ELSE IF Cardinality(Range(members.ids) \cap Users) # Len(members.ids) THEN 400
  ELSE IF \E i \in DOMAIN members.ids : Role(members.ids[i]) # "team_member" THEN 400
  ELSE 200

createTeamCode(u, siteName, location, leader, members) ==
  IF siteName = None \/ location = None THEN 400
  ELSE IF Role(u) = "admin" /\ leader = None THEN 400
  ELSE IF Role(u) = "admin" /\ Role(leader) \notin {"team_leader", "admin"} THEN 400
  ELSE IF Role(u) = "team_leader" /\ leader # None /\ leader # u THEN 403
  ELSE IF Role(u) \notin {"admin", "team_leader"} THEN 403
  ELSE IF MembersCode(members) # 200 THEN 400
  ELSE 201

createTeam(u, siteName, location, leader, members) ==
  LET code == createTeamCode(u, siteName, location, leader, members)
      team == [siteName |-> siteName,
               teamLeader |-> IF Role(u) = "team_leader" THEN u ELSE leader,
               members |-> IF members.given THEN members.ids ELSE <<>>,
               status |-> "Active"]
      saved == [teams EXCEPT ![nextTeamId] = team]
  IN IF code # 201
       THEN /\ resp' = Response("createTeam", u, code, 0, 0, None, <<>>)
            /\ UNCHANGED <<teams, nextTeamId, rackVars, snaps, uploadVars, flight>>
       ELSE /\ nextTeamId \in TeamIds
            /\ IF SiteNameUnique(saved)
                 THEN /\ teams' = saved
                      /\ nextTeamId' = nextTeamId + 1
                      /\ resp' = Response("createTeam", u, 201, nextTeamId, 0, None, <<>>)
                 ELSE /\ resp' = Response("createTeam", u, 500, 0, 0, None, <<>>)
                      /\ UNCHANGED <<teams, nextTeamId>>
            /\ UNCHANGED <<rackVars, snaps, uploadVars, flight>>

\* team.teamLeader.toString() throws on a null teamLeader: the catch answers 500
updateTeamCode(u, t, members) ==
  IF ~Exists(t) THEN 404
  ELSE IF Role(u) # "admin" /\ teams[t].teamLeader = None THEN 500
  ELSE IF Role(u) # "admin" /\ teams[t].teamLeader # u THEN 403
  ELSE IF MembersCode(members) # 200 THEN 400
  ELSE 200

updateTeam(u, t, siteName, members, status) ==
  LET code == updateTeamCode(u, t, members)
      team == [siteName |-> IF siteName # None THEN siteName ELSE teams[t].siteName,
               teamLeader |-> teams[t].teamLeader,
               members |-> IF members.given THEN members.ids ELSE teams[t].members,
               status |-> IF status # None THEN status ELSE teams[t].status]
      saved == [teams EXCEPT ![t] = team]
  IN /\ IF code # 200
          THEN /\ resp' = Response("updateTeam", u, code, t, 0, None, <<>>)
               /\ UNCHANGED teams
          ELSE IF SiteNameUnique(saved)
                 THEN /\ teams' = saved
                      /\ resp' = Response("updateTeam", u, 200, t, 0, None, <<>>)
                 ELSE /\ resp' = Response("updateTeam", u, 500, t, 0, None, <<>>)
                      /\ UNCHANGED teams
     /\ UNCHANGED <<nextTeamId, rackVars, snaps, uploadVars, flight>>

deleteTeamCode(u, t) ==
  IF ~Exists(t) THEN 404
  ELSE IF ~isTeamLeaderOrAdmin(u, teams[t]) THEN 403
  ELSE 200

deleteTeam(u, t) ==
  LET code == deleteTeamCode(u, t)
  IN /\ resp' = Response("deleteTeam", u, code, t, 0, None, <<>>)
     /\ teams' = IF code = 200 THEN [teams EXCEPT ![t] = NoTeam] ELSE teams
     /\ UNCHANGED <<nextTeamId, rackVars, snaps, uploadVars, flight>>

\* addTeamMember without the team.members.includes(memberId) refusal
addTeamMemberCodeNoIncludes(u, t, memberId) ==
  IF ~Exists(t) THEN 404
  ELSE IF ~isTeamLeaderOrAdmin(u, teams[t]) THEN 403
  ELSE IF memberId \notin Users THEN 404
  ELSE IF Role(memberId) # "team_member" THEN 400
  ELSE 200

addTeamMemberCode(u, t, memberId) ==
  IF ~Exists(t) THEN 404
  ELSE IF ~isTeamLeaderOrAdmin(u, teams[t]) THEN 403
  ELSE IF memberId \notin Users THEN 404
  ELSE IF Role(memberId) # "team_member" THEN 400
  ELSE IF memberId \in Range(teams[t].members) THEN 400
  ELSE 200

addTeamMember(u, t, memberId) ==
  LET code == addTeamMemberCode(u, t, memberId)
  IN /\ resp' = Response("addTeamMember", u, code, t, 0, memberId, <<>>)
     /\ teams' = IF code = 200
                   THEN [teams EXCEPT ![t].members = Append(@, memberId)]
                   ELSE teams
     /\ UNCHANGED <<nextTeamId, rackVars, snaps, uploadVars, flight>>

removeTeamMemberCode(u, t, memberId) ==
  IF ~Exists(t) THEN 404
  ELSE IF ~isTeamLeaderOrAdmin(u, teams[t]) THEN 403
  ELSE IF Len(SelectSeq(teams[t].members, LAMBDA m : m # memberId)) = Len(teams[t].members)
    THEN 400
  ELSE 200

removeTeamMember(u, t, memberId) ==
  LET code == removeTeamMemberCode(u, t, memberId)
  IN /\ resp' = Response("removeTeamMember", u, code, t, 0, memberId, <<>>)
     /\ teams' = IF code = 200
                   THEN [teams EXCEPT ![t].members = SelectSeq(@, LAMBDA m : m # memberId)]
                   ELSE teams
     /\ UNCHANGED <<nextTeamId, rackVars, snaps, uploadVars, flight>>

completeTeamWorkCode(u, t) ==
  IF ~Exists(t) THEN 404
  ELSE IF ~(\/ Role(u) = "admin"
            \/ (Role(u) = "team_leader" /\ teams[t].teamLeader # None
                /\ teams[t].teamLeader = u)) THEN 403
  ELSE 200

\* completeTeamWork that forgets team.teamLeader = null
completeTeamWorkKeepsLeader(u, t) ==
  LET code == completeTeamWorkCode(u, t)
  IN /\ resp' = Response("completeTeamWork", u, code, t, 0, None, <<>>)
     /\ teams' = IF code = 200
                   THEN [teams EXCEPT ![t].members = <<>>, ![t].status = "Completed"]
                   ELSE teams
     /\ UNCHANGED <<nextTeamId, rackVars, snaps, uploadVars, flight>>

completeTeamWork(u, t) ==
  LET code == completeTeamWorkCode(u, t)
  IN /\ resp' = Response("completeTeamWork", u, code, t, 0, None, <<>>)
     /\ teams' = IF code = 200
                   THEN [teams EXCEPT ![t].members = <<>>,
                                      ![t].teamLeader = None,
                                      ![t].status = "Completed"]
                   ELSE teams
     /\ UNCHANGED <<nextTeamId, rackVars, snaps, uploadVars, flight>>

(***************************************************************************)
(* Rack inventory (rackcontroller) behind the rack routes                  *)
(***************************************************************************)
RackIds == 1..MaxRacks
\* a :id that is not a syntactically valid ObjectId
InvalidId == 0 - 1

RackNos == {"R1"}
PartNos == {"P1", "P2"}

\* the slot of a Rack _id that resolves to no document
NoRack == [rackNo |-> None, partNo |-> None, team |-> 0, siteName |-> None, scannedBy |-> None]

RackExists(r) == r \in RackIds /\ racks[r].partNo # None

\* authorize(roles) of the rack routes
authorize(roles, u) == IF Role(u) \in roles THEN 200 ELSE 403

\* Team.findOne({ siteName }): any team document with that siteName (the
\* store fixes no order among several), 0 when there is none
FindOneTeam(siteName) ==
  IF \E t \in TeamIds : Exists(t) /\ teams[t].siteName = siteName
    THEN {t \in TeamIds : Exists(t) /\ teams[t].siteName = siteName}
    ELSE {0}

\* createRack without the isTeamMember grant
createRackCodeNoMember(u, rackNo, partNo, siteName, t) ==
  IF authorize({"admin", "team_leader", "team_member"}, u) # 200 THEN 403
  ELSE IF rackNo = None \/ partNo = None \/ siteName = None THEN 400
  ELSE IF t = 0 THEN 404
  ELSE IF ~(\/ Role(u) = "admin"
            \/ (Role(u) = "team_leader" /\ teams[t].teamLeader # None
                /\ teams[t].teamLeader = u)) THEN 403
  ELSE IF \E r \in RackIds :
            RackExists(r) /\ racks[r].partNo = partNo /\ racks[r].rackNo = rackNo THEN 400
  ELSE 201

createRackCode(u, rackNo, partNo, siteName, t) ==
  IF authorize({"admin", "team_leader", "team_member"}, u) # 200 THEN 403
  ELSE IF rackNo = None \/ partNo = None \/ siteName = None THEN 400
  ELSE IF t = 0 THEN 404
  ELSE IF ~(\/ Role(u) = "admin"
            \/ (Role(u) = "team_leader" /\ teams[t].teamLeader # None
                /\ teams[t].teamLeader = u)
            \/ (Role(u) = "team_member" /\ u \in Range(teams[t].members))) THEN 403
  ELSE IF \E r \in RackIds :
            RackExists(r) /\ racks[r].partNo = partNo /\ racks[r].rackNo = rackNo THEN 400
  ELSE 201

\* t is the team that Team.findOne resolved for siteName
createRack(u, rackNo, partNo, siteName, t) ==
  LET code == createRackCode(u, rackNo, partNo, siteName, t)
  IN /\ t \in (IF siteName = None THEN {0} ELSE FindOneTeam(siteName))
     /\ IF code = 201
          THEN /\ nextRackId \in RackIds
               /\ racks' = [racks EXCEPT ![nextRackId] =
                              [rackNo |-> rackNo, partNo |-> partNo, team |-> t,
                               siteName |-> siteName, scannedBy |-> u]]
               /\ nextRackId' = nextRackId + 1
               /\ resp' = Response("createRack", u, 201, t, nextRackId, siteName, <<>>)
          ELSE /\ resp' = Response("createRack", u, code, t, 0, siteName, <<>>)
               /\ UNCHANGED rackVars
     /\ UNCHANGED <<teams, nextTeamId, snaps, uploadVars, flight>>

\* the number a joined MasterDescription row is shown by; 0 is the null of a
\* rack without a match
RowNo(m) == m.src * (MaxEntries + 1) + m.idx

\* rows in ascending RowNo order
RECURSIVE RowSeq(_)
RowSeq(S) ==
  IF S = {} THEN <<>>
  ELSE LET m == CHOOSE x \in S : \A y \in S : RowNo(x) <= RowNo(y)
       IN <<m>> \o RowSeq(S \ {m})

\* $lookup on partNo and $unwind with preserveNullAndEmptyArrays: one output
\* document per matching MasterDescription row, one with nulls when none matches
JoinRack(r) ==
  LET ms == RowSeq({m \in md : m.partNo = racks[r].partNo})
  IN IF ms = <<>>
       THEN <<[rack |-> r, material |-> 0]>>
       ELSE [i \in DOMAIN ms |-> [rack |-> r, material |-> RowNo(ms[i])]]

\* the aggregate of the racks in R, sorted by createdAt descending
RECURSIVE Aggregate(_, _)
Aggregate(R, r) ==
  IF r = 0 THEN <<>>
  ELSE (IF r \in R THEN JoinRack(r) ELSE <<>>) \o Aggregate(R, r - 1)

\* the teams whose ids scope the list of a non-admin principal
\* a list scoped by membership where leadership is meant
teamsLedOrJoined(u) ==
  {t \in TeamIds : Exists(t) /\ (teams[t].teamLeader = u \/ teams[t].members # <<>>)}

teamsLed(u) == {t \in TeamIds : Exists(t) /\ teams[t].teamLeader = u}
teamsMemberOf(u) == {t \in TeamIds : Exists(t) /\ u \in Range(teams[t].members)}

\* matchFilter of getRacks; teamId 0 and siteName None are the absent query fields
getRacksMatch(u, siteName, teamId) ==
  {r \in RackIds :
     /\ RackExists(r)
     /\ (Role(u) = "admin" /\ teamId # 0) => racks[r].team = teamId
     /\ Role(u) = "team_leader" => racks[r].team \in teamsLed(u)
     /\ Role(u) = "team_member" => racks[r].team \in teamsMemberOf(u)
     /\ siteName # None => racks[r].siteName = siteName}

getRacksCode(u) ==
  IF u \notin Users THEN 401
  ELSE IF Role(u) \in {"admin", "team_leader", "team_member"} THEN 200
  ELSE 403

getRacks(u, siteName, teamId) ==
  LET code == getRacksCode(u)
      rows == IF code # 200 THEN <<>>
              ELSE IF Role(u) = "team_leader" /\ teamsLed(u) = {} THEN <<>>
              ELSE IF Role(u) = "team_member" /\ teamsMemberOf(u) = {} THEN <<>>
              ELSE Aggregate(getRacksMatch(u, siteName, teamId), MaxRacks)
  IN /\ resp' = Response("getRacks", u, code, teamId, 0, siteName, rows)
     /\ UNCHANGED <<teams, nextTeamId, rackVars, snaps, uploadVars, flight>>

\* the populated team of a rack is null when the team document is gone
isRackTeamLeader(u, r) ==
  /\ Exists(racks[r].team)
  /\ teams[racks[r].team].teamLeader # None
  /\ teams[racks[r].team].teamLeader = u

\* shared by updateRack and deleteRack, behind authorize(['admin', 'team_leader'])
\* a check that stops at the role of the route
modifyRackCodeByRoleOnly(u, r) ==
  IF authorize({"admin", "team_leader"}, u) # 200 THEN 403
  ELSE IF r = InvalidId THEN 400
  ELSE IF ~RackExists(r) THEN 404
  ELSE 200

modifyRackCode(u, r) ==
  IF authorize({"admin", "team_leader"}, u) # 200 THEN 403
  ELSE IF r = InvalidId THEN 400
  ELSE IF ~RackExists(r) THEN 404
  ELSE IF ~(Role(u) = "admin" \/ isRackTeamLeader(u, r)) THEN 403
  ELSE 200

\* Rack.findByIdAndUpdate(rackId, req.body): the body's fields overwrite
updateRack(u, r, body) ==
  LET code == modifyRackCode(u, r)
  IN /\ resp' = Response("updateRack", u, code, 0, r, None, <<>>)
     /\ racks' = IF code = 200
                   THEN [racks EXCEPT ![r] =
                           [f \in DOMAIN racks[r] |->
                              IF f \in DOMAIN body THEN body[f] ELSE racks[r][f]]]
                   ELSE racks
     /\ UNCHANGED <<teams, nextTeamId, nextRackId, snaps, uploadVars, flight>>

\* a delete that removes the rack before it looks at the caller
deleteRackBeforeChecks(u, r) ==
  LET code == modifyRackCode(u, r)
  IN /\ resp' = Response("deleteRack", u, code, 0, r, None, <<>>)
     /\ racks' = IF r \in RackIds THEN [racks EXCEPT ![r] = NoRack] ELSE racks
     /\ UNCHANGED <<teams, nextTeamId, nextRackId, snaps, uploadVars, flight>>

deleteRack(u, r) ==
  LET code == modifyRackCode(u, r)
  IN /\ resp' = Response("deleteRack", u, code, 0, r, None, <<>>)
     /\ racks' = IF code = 200 THEN [racks EXCEPT ![r] = NoRack] ELSE racks
     /\ UNCHANGED <<teams, nextTeamId, nextRackId, snaps, uploadVars, flight>>

\* rack.team.members.some(..) on the joined team of the rack
isRackTeamMember(u, r) ==
  /\ Exists(racks[r].team)
  /\ u \in Range(teams[racks[r].team].members)

\* getRackById: mongoose.Types.ObjectId(rackId) is called without new, which
\* returns the id where the driver's ObjectId is a function and throws where
\* it is a class (callable FALSE); asyncHandler turns the throw into 500
getRackByIdCode(u, r, callable) ==
  IF authorize({"admin", "team_leader", "team_member"}, u) # 200 THEN 403
  ELSE IF r = InvalidId THEN 400
  ELSE IF ~callable THEN 500
  ELSE IF ~RackExists(r) THEN 404
  ELSE IF ~(Role(u) = "admin" \/ isRackTeamLeader(u, r) \/ isRackTeamMember(u, r)) THEN 403
  ELSE 200

\* the answer carries racks[0] of the aggregate
getRackById(u, r, callable) ==
  LET code == getRackByIdCode(u, r, callable)
  IN /\ resp' = Response("getRackById", u, code, 0, r, None,
                         IF code = 200 THEN <<JoinRack(r)[1]>> ELSE <<>>)
     /\ UNCHANGED <<teams, nextTeamId, rackVars, snaps, uploadVars, flight>>

(***************************************************************************)
(* Requests followed step by step                                          *)
(*                                                                         *)
(* Between two awaits of a handler other requests run.  A request in a     *)
(* slot of flight takes one store call per step.                           *)
(***************************************************************************)
Slots == {"c1", "c2"}

IdleReq ==
  [op |-> "none", pc |-> "idle", user |-> None, team |-> 0, doc |-> NoTeam,
   rackNo |-> None, partNo |-> None, siteName |-> None, member |-> None,
   members |-> [given |-> FALSE, ids |-> <<>>], code |-> 0]

\* the handler answers with code
Answer(req, code) == [req EXCEPT !.pc = "done", !.code = code]

\* createRack up to the authorization: validation, Team.findOne, role checks
createRackGate(u, rackNo, partNo, siteName, t) ==
  IF authorize({"admin", "team_leader", "team_member"}, u) # 200 THEN 403
  ELSE IF rackNo = None \/ partNo = None \/ siteName = None THEN 400
  ELSE IF t = 0 THEN 404
  ELSE IF ~(\/ Role(u) = "admin"
            \/ (Role(u) = "team_leader" /\ teams[t].teamLeader # None
                /\ teams[t].teamLeader = u)
            \/ (Role(u) = "team_member" /\ u \in Range(teams[t].members))) THEN 403
  ELSE 200

\* createRack: await Team.findOne({ siteName }) and the checks around it
createRackFindTeam(c, u, rackNo, partNo, siteName, t) ==
  LET code == createRackGate(u, rackNo, partNo, siteName, t)
      req == [IdleReq EXCEPT !.op = "createRack", !.user = u, !.team = t,
                             !.rackNo = rackNo, !.partNo = partNo, !.siteName = siteName]
  IN /\ flight[c].pc = "idle"
     /\ t \in (IF siteName = None THEN {0} ELSE FindOneTeam(siteName))
     /\ flight' = [flight EXCEPT ![c] =
                     IF code = 200 THEN [req EXCEPT !.pc = "findRack"] ELSE Answer(req, code)]
     /\ UNCHANGED <<teams, nextTeamId, rackVars, snaps, uploadVars, resp>>

\* createRack: await Rack.findOne({ partNo, rackNo }), 400 when it finds one
createRackFindRack(c) ==
  /\ flight[c].op = "createRack" /\ flight[c].pc = "findRack"
  /\ flight' = [flight EXCEPT ![c] =
       IF \E r \in RackIds : /\ RackExists(r)
                             /\ racks[r].partNo = flight[c].partNo
                             /\ racks[r].rackNo = flight[c].rackNo
         THEN Answer(@, 400)
         ELSE [@ EXCEPT !.pc = "create"]]
  /\ UNCHANGED <<teams, nextTeamId, rackVars, snaps, uploadVars, resp>>

\* an insert that looks for the pair again
createRackInsertChecked(c) ==
  /\ flight[c].op = "createRack" /\ flight[c].pc = "create"
  /\ flight' = [flight EXCEPT ![c] =
       IF \E r \in RackIds : /\ RackExists(r)
                             /\ racks[r].partNo = flight[c].partNo
                             /\ racks[r].rackNo = flight[c].rackNo
         THEN Answer(@, 400) ELSE Answer(@, 201)]
  /\ nextRackId \in RackIds
  /\ IF flight'[c].code = 201
       THEN /\ racks' = [racks EXCEPT ![nextRackId] =
                           [rackNo |-> flight[c].rackNo, partNo |-> flight[c].partNo,
                            team |-> flight[c].team, siteName |-> flight[c].siteName,
                            scannedBy |-> flight[c].user]]
            /\ nextRackId' = nextRackId + 1
       ELSE UNCHANGED rackVars
  /\ UNCHANGED <<teams, nextTeamId, snaps, uploadVars, resp>>

\* createRack: await Rack.create({ .. }), then 201
createRackInsert(c) ==
  /\ flight[c].op = "createRack" /\ flight[c].pc = "create"
  /\ nextRackId \in RackIds
  /\ racks' = [racks EXCEPT ![nextRackId] =
                 [rackNo |-> flight[c].rackNo, partNo |-> flight[c].partNo,
                  team |-> flight[c].team, siteName |-> flight[c].siteName,
                  scannedBy |-> flight[c].user]]
  /\ nextRackId' = nextRackId + 1
  /\ flight' = [flight EXCEPT ![c] = Answer(@, 201)]
  /\ UNCHANGED <<teams, nextTeamId, snaps, uploadVars, resp>>

\* addTeamMember: await Team.findById, await User.findById and the checks,
\* all on the document as it was read
addTeamMemberFind(c, u, t, memberId) ==
  LET code == addTeamMemberCode(u, t, memberId)
      req == [IdleReq EXCEPT !.op = "addTeamMember", !.user = u, !.team = t,
                             !.member = memberId,
                             !.doc = IF Exists(t) THEN teams[t] ELSE NoTeam]
  IN /\ flight[c].pc = "idle"
     /\ flight' = [flight EXCEPT ![c] =
                     IF code = 200 THEN [req EXCEPT !.pc = "save"] ELSE Answer(req, code)]
     /\ UNCHANGED <<teams, nextTeamId, rackVars, snaps, uploadVars, resp>>

\* addTeamMember: team.members.push(memberId); await team.save(). The save
\* sends a $push of the new element, applied to the array as stored now; it
\* throws when the document is gone
addTeamMemberSave(c) ==
  /\ flight[c].op = "addTeamMember" /\ flight[c].pc = "save"
  /\ IF Exists(flight[c].team)
       THEN /\ teams' = [teams EXCEPT ![flight[c].team].members =
                                        Append(@, flight[c].member)]
            /\ flight' = [flight EXCEPT ![c] = Answer(@, 200)]
       ELSE /\ flight' = [flight EXCEPT ![c] = Answer(@, 500)]
            /\ UNCHANGED teams
  /\ UNCHANGED <<nextTeamId, rackVars, snaps, uploadVars, resp>>

\* the response of a request followed step by step has left
Leave(c) ==
  /\ flight[c].pc = "done"
  /\ flight' = [flight EXCEPT ![c] = IdleReq]
  /\ UNCHANGED <<teams, nextTeamId, rackVars, snaps, uploadVars, resp>>

(***************************************************************************)
(* Export snapshots (controllers/exportedrackcontroller.js)                *)
(***************************************************************************)
\* n is the number of line items in req.body.snapshots; teamId 0 and siteName
\* None are the missing body fields
createExportedSnapshotsCode(u, n, teamId, siteName) ==
  IF n = 0 THEN 400
  ELSE IF teamId = 0 \/ siteName = None THEN 400
  ELSE IF ~Exists(teamId) THEN 404
  ELSE IF ~(\/ Role(u) = "admin"
            \/ (Role(u) = "team_leader" /\ teams[teamId].teamLeader # None
                /\ teams[teamId].teamLeader = u)) THEN 403
  ELSE 201

createExportedSnapshots(u, n, teamId, siteName) ==
  LET code == createExportedSnapshotsCode(u, n, teamId, siteName)
  IN /\ resp' = Response("createExportedSnapshots", u, code, teamId, 0, siteName, <<>>)
     /\ IF code = 201
          THEN /\ Len(snaps) + n <= MaxSnaps
               /\ snaps' = snaps \o [i \in 1..n |->
                                       [sNo |-> i, team |-> teamId, siteName |-> siteName,
                                        exportedBy |-> u]]
          ELSE UNCHANGED snaps
     /\ UNCHANGED <<teams, nextTeamId, rackVars, uploadVars, flight>>

(***************************************************************************)
(* Master description upload ledger (controllers/master_controller.js) and *)
(* the earlier upload handler (controllers/uploadcontroller.js)            *)
(*                                                                         *)
(* A handler runs as a process, one store call per step.  Writes made with *)
(* { session } are buffered in the process's transaction and reach the     *)
(* collections at commitTransaction; a store call may throw at any step.   *)
(* A MasterDescription row carries src and idx, the upload that inserted   *)
(* it and its place in that upload: they stand for the row's _id.          *)
(***************************************************************************)
FileIds == 1..MaxUploads
Procs == {"p1", "p2"}
Filenames == {"f1", "f2"}

\* the slot of an UploadMetadata _id that resolves to no document
NoMeta == [filename |-> None, recordCount |-> 0, status |-> "absent"]

NoTxn == [meta |-> NoMeta, rows |-> {}, del |-> {}, delMeta |-> 0]

\* session is the handler's store session ("none" before startSession, then
\* "open", then "ended"), txnState the state of its transaction ("none",
\* "active", "committed", "aborted", "commitFailed"), sent the number of
\* responses written
IdleProc ==
  [op |-> "none", pc |-> "idle", id |-> 0, filename |-> None, entries |-> <<>>,
   snap |-> {}, txn |-> NoTxn, count |-> 0, code |-> 0,
   session |-> "none", txnState |-> "none", sent |-> 0]

\* the handler returns: the response carries code (and the deleted count); an
\* active transaction has been committed (success) or aborted, and finally
\* ends the session
Done(proc, code) ==
  [proc EXCEPT !.pc = "done", !.code = code, !.txn = NoTxn, !.sent = 1,
               !.session = IF @ = "open" THEN "ended" ELSE @,
               !.txnState = IF @ = "active"
                              THEN (IF code \in {200, 201} THEN "committed" ELSE "aborted")
                              ELSE @]

\* the handler's promise rejects: no response is written
Unanswered(proc, session, txnState) ==
  [proc EXCEPT !.pc = "done", !.code = 0, !.txn = NoTxn, !.sent = 0,
               !.session = session, !.txnState = txnState]

\* req.body.entries: lists of part numbers
EntryLists == {[i \in 1..n |-> "P1"] : n \in 0..MaxEntries}

\* uploadMasterDescriptions of master_controller.js: validation, startTransaction
uploadBegin(p, entries, filename) ==
  /\ procs[p].pc = "idle"
  /\ procs' = [procs EXCEPT ![p] =
       IF Len(entries) = 0
         THEN Done([IdleProc EXCEPT !.op = "upload", !.session = "open"], 400)
         ELSE [IdleProc EXCEPT !.op = "upload", !.pc = "createMeta",
                               !.session = "open", !.txnState = "active",
                               !.entries = entries, !.filename = filename]]
  /\ UNCHANGED <<teams, nextTeamId, rackVars, snaps, flight, md, ledger, nextFileId, resp>>

\* UploadMetadata.create([{ filename, .. }], { session })
uploadCreateMeta(p) ==
  /\ procs[p].op = "upload" /\ procs[p].pc = "createMeta"
  /\ nextFileId \in FileIds
  /\ nextFileId' = nextFileId + 1
  /\ procs' = [procs EXCEPT ![p].pc = "insertMany",
                            ![p].id = nextFileId,
                            ![p].txn.meta = [filename |-> procs[p].filename,
                                             recordCount |-> 0, status |-> "present"]]
  /\ UNCHANGED <<teams, nextTeamId, rackVars, snaps, flight, md, ledger, resp>>

\* the docs of an upload: every entry tagged with uploadBatch and fileId
UploadDocs(fileId, entries, filename) ==
  {[src |-> fileId, idx |-> i, partNo |-> entries[i], fileId |-> fileId,
    uploadBatch |-> filename] : i \in DOMAIN entries}

\* MasterDescription.insertMany(docs, { session })
uploadInsertMany(p) ==
  /\ procs[p].op = "upload" /\ procs[p].pc = "insertMany"
  /\ procs' = [procs EXCEPT ![p].pc = "stamp",
                            ![p].txn.rows = UploadDocs(procs[p].id, procs[p].entries,
                                                       procs[p].filename)]
  /\ UNCHANGED <<teams, nextTeamId, rackVars, snaps, flight, md, ledger, nextFileId, resp>>

\* UploadMetadata.findByIdAndUpdate(fileId, { recordCount: docs.length }, { session })
uploadStamp(p) ==
  /\ procs[p].op = "upload" /\ procs[p].pc = "stamp"
  /\ procs' = [procs EXCEPT ![p].pc = "commit",
                            ![p].txn.meta.recordCount = Cardinality(procs[p].txn.rows)]
  /\ UNCHANGED <<teams, nextTeamId, rackVars, snaps, flight, md, ledger, nextFileId, resp>>

\* session.commitTransaction(), then 201
uploadCommit(p) ==
  /\ procs[p].op = "upload" /\ procs[p].pc = "commit"
  /\ md' = md \cup procs[p].txn.rows
  /\ ledger' = [ledger EXCEPT ![procs[p].id] = procs[p].txn.meta]
  /\ procs' = [procs EXCEPT ![p] = Done(@, 201)]
  /\ UNCHANGED <<teams, nextTeamId, rackVars, snaps, flight, nextFileId, resp>>

\* a store call of the upload throws: catch, abortTransaction, 500
uploadAbort(p) ==
  /\ procs[p].op = "upload"
  /\ procs[p].pc \in {"createMeta", "insertMany", "stamp", "commit"}
  /\ procs' = [procs EXCEPT ![p] = Done(@, 500)]
  /\ UNCHANGED <<teams, nextTeamId, rackVars, snaps, flight, md, ledger, nextFileId, resp>>

\* the upload fails before its transaction is active. started FALSE:
\* mongoose.startSession() rejects, outside the try. started TRUE: a throw in
\* the try before or in startTransaction; the catch calls abortTransaction,
\* which throws "No transaction started", so the 500 is never written;
\* finally ends the session
uploadFailEarly(p, started) ==
  /\ procs[p].pc = "idle"
  /\ procs' = [procs EXCEPT ![p] =
       Unanswered([IdleProc EXCEPT !.op = "upload"],
                  IF started THEN "ended" ELSE "none", "none")]
  /\ UNCHANGED <<teams, nextTeamId, rackVars, snaps, flight, md, ledger, nextFileId, resp>>

\* commitTransaction throws where the driver has already marked the
\* transaction committed: abortTransaction in the catch throws, so the 500 is
\* never written; finally ends the session (uploadAbort is the build where
\* the abort goes through)
uploadCommitFails(p) ==
  /\ procs[p].op = "upload" /\ procs[p].pc = "commit"
  /\ procs' = [procs EXCEPT ![p] = Unanswered(@, "ended", "commitFailed")]
  /\ UNCHANGED <<teams, nextTeamId, rackVars, snaps, flight, md, ledger, nextFileId, resp>>

\* deleteUploadedFile: isValidObjectId, startTransaction
deleteBegin(p, id) ==
  /\ procs[p].pc = "idle"
  /\ procs' = [procs EXCEPT ![p] =
       IF id = InvalidId
         THEN Done([IdleProc EXCEPT !.op = "delete", !.id = id, !.session = "open"], 400)
         ELSE [IdleProc EXCEPT !.op = "delete", !.pc = "findById", !.id = id,
                               !.session = "open", !.txnState = "active"]]
  /\ UNCHANGED <<teams, nextTeamId, rackVars, snaps, flight, md, ledger, nextFileId, resp>>

\* the rows matching { $or: [{ fileId }, { uploadedFileId }, { uploadBatch: filename }] };
\* no handler writes an uploadedFileId
LinkedRows(rows, id, filename) ==
  {r \in rows : r.fileId = id \/ r.uploadBatch = filename}

\* UploadMetadata.findById(id).session(session): the first read fixes the
\* transaction's snapshot; 404 after abortTransaction when it finds nothing
deleteFindById(p) ==
  /\ procs[p].op = "delete" /\ procs[p].pc = "findById"
  /\ procs' = [procs EXCEPT ![p] =
       IF procs[p].id \in FileIds /\ ledger[procs[p].id].status = "present"
         THEN [@ EXCEPT !.pc = "deleteMany",
                        !.filename = ledger[procs[p].id].filename,
                        !.snap = LinkedRows(md, procs[p].id, ledger[procs[p].id].filename)]
         ELSE Done(@, 404)]
  /\ UNCHANGED <<teams, nextTeamId, rackVars, snaps, flight, md, ledger, nextFileId, resp>>

\* the rows and ledger entries that transactions of other requests have written
LockedRows(p) == UNION {procs[q].txn.del : q \in Procs \ {p}}
LockedMetas(p) == {procs[q].txn.delMeta : q \in Procs \ {p}}

\* deleteMany issued without the session: the rows go at once
deleteManyNoSession(p) ==
  /\ procs[p].op = "delete" /\ procs[p].pc = "deleteMany"
  /\ md' = md \ LinkedRows(md, procs[p].id, procs[p].filename)
  /\ procs' = [procs EXCEPT ![p].pc = "deleteOne",
                            ![p].count = Cardinality(LinkedRows(md, procs[p].id,
                                                                 procs[p].filename))]
  /\ UNCHANGED <<teams, nextTeamId, rackVars, snaps, flight, ledger, nextFileId, resp>>

\* MasterDescription.deleteMany(query).session(session) on the snapshot's rows;
\* a row that another transaction has deleted since is a write conflict, which
\* throws (countDocuments before it only logs)
deleteMany(p) ==
  /\ procs[p].op = "delete" /\ procs[p].pc = "deleteMany"
  /\ procs' = [procs EXCEPT ![p] =
       IF procs[p].snap \subseteq md /\ procs[p].snap \cap LockedRows(p) = {}
         THEN [@ EXCEPT !.pc = "deleteOne",
                        !.txn.del = procs[p].snap,
                        !.count = Cardinality(procs[p].snap)]
         ELSE Done(@, 500)]
  /\ UNCHANGED <<teams, nextTeamId, rackVars, snaps, flight, md, ledger, nextFileId, resp>>

\* UploadMetadata.deleteOne({ _id: id }).session(session)
deleteOne(p) ==
  /\ procs[p].op = "delete" /\ procs[p].pc = "deleteOne"
  /\ procs' = [procs EXCEPT ![p] =
       IF ledger[procs[p].id].status = "present" /\ procs[p].id \notin LockedMetas(p)
         THEN [@ EXCEPT !.pc = "commit", !.txn.delMeta = procs[p].id]
         ELSE Done(@, 500)]
  /\ UNCHANGED <<teams, nextTeamId, rackVars, snaps, flight, md, ledger, nextFileId, resp>>

\* session.commitTransaction(), then 200 with deletedRecordsCount
deleteCommit(p) ==
  /\ procs[p].op = "delete" /\ procs[p].pc = "commit"
  /\ md' = md \ procs[p].txn.del
  /\ ledger' = [ledger EXCEPT ![procs[p].txn.delMeta] = NoMeta]
  /\ procs' = [procs EXCEPT ![p] = Done(@, 200)]
  /\ UNCHANGED <<teams, nextTeamId, rackVars, snaps, flight, nextFileId, resp>>

\* a store call of the delete throws: catch, abortTransaction, 500
deleteAbort(p) ==
  /\ procs[p].op = "delete"
  /\ procs[p].pc \in {"findById", "deleteMany", "deleteOne", "commit"}
  /\ procs' = [procs EXCEPT ![p] = Done(@, 500)]
  /\ UNCHANGED <<teams, nextTeamId, rackVars, snaps, flight, md, ledger, nextFileId, resp>>

\* the delete fails before its transaction is active (as uploadFailEarly)
deleteFailEarly(p, started) ==
  /\ procs[p].pc = "idle"
  /\ procs' = [procs EXCEPT ![p] =
       Unanswered([IdleProc EXCEPT !.op = "delete"],
                  IF started THEN "ended" ELSE "none", "none")]
  /\ UNCHANGED <<teams, nextTeamId, rackVars, snaps, flight, md, ledger, nextFileId, resp>>

\* commitTransaction of the delete throws (as uploadCommitFails)
deleteCommitFails(p) ==
  /\ procs[p].op = "delete" /\ procs[p].pc = "commit"
  /\ procs' = [procs EXCEPT ![p] = Unanswered(@, "ended", "commitFailed")]
  /\ UNCHANGED <<teams, nextTeamId, rackVars, snaps, flight, md, ledger, nextFileId, resp>>

\* uploadMasterDescriptions of uploadcontroller.js: validation
legacyBegin(p, entries, filename) ==
  /\ procs[p].pc = "idle"
  /\ procs' = [procs EXCEPT ![p] =
       IF Len(entries) = 0
         THEN Done([IdleProc EXCEPT !.op = "legacyUpload"], 400)
         ELSE [IdleProc EXCEPT !.op = "legacyUpload", !.pc = "insertMany",
                               !.entries = entries, !.filename = filename]]
  /\ UNCHANGED <<teams, nextTeamId, rackVars, snaps, flight, md, ledger, nextFileId, resp>>

\* the entries as the client sent them: no fileId, no uploadBatch
LegacyDocs(src, entries) ==
  {[src |-> src, idx |-> i, partNo |-> entries[i], fileId |-> 0, uploadBatch |-> None] :
     i \in DOMAIN entries}

\* MasterDescription.insertMany(entries, { ordered: false }), no session: the
\* rows are stored at once; when it throws, the documents that did not fail stay
legacyInsertMany(p, k) ==
  /\ procs[p].op = "legacyUpload" /\ procs[p].pc = "insertMany"
  /\ nextFileId \in FileIds
  /\ nextFileId' = nextFileId + 1
  /\ k \in 0..Len(procs[p].entries)
  /\ md' = md \cup {r \in LegacyDocs(nextFileId, procs[p].entries) : r.idx <= k}
  /\ procs' = [procs EXCEPT ![p] =
       IF k = Len(procs[p].entries)
         THEN [@ EXCEPT !.pc = "createMeta", !.id = nextFileId]
         ELSE Done([@ EXCEPT !.id = nextFileId], 500)]
  /\ UNCHANGED <<teams, nextTeamId, rackVars, snaps, flight, ledger, resp>>

\* UploadMetadata.create({ filename, recordCount: insertedDocs.length }), then
\* 201; 500 when it throws
legacyCreateMeta(p, ok) ==
  /\ procs[p].op = "legacyUpload" /\ procs[p].pc = "createMeta"
  /\ IF ok
       THEN /\ ledger' = [ledger EXCEPT ![procs[p].id] =
                            [filename |-> procs[p].filename,
                             recordCount |-> Len(procs[p].entries),
                             status |-> "present"]]
            /\ procs' = [procs EXCEPT ![p] = Done(@, 201)]
       ELSE /\ procs' = [procs EXCEPT ![p] = Done(@, 500)]
            /\ UNCHANGED ledger
  /\ UNCHANGED <<teams, nextTeamId, rackVars, snaps, flight, md, nextFileId, resp>>

\* the response of a ledger request has left
Finish(p) ==
  /\ procs[p].pc = "done"
  /\ procs' = [procs EXCEPT ![p] = IdleProc]
  /\ UNCHANGED <<teams, nextTeamId, rackVars, snaps, flight, md, ledger, nextFileId, resp>>

(***************************************************************************)
(* Specifications                                                          *)
(***************************************************************************)
Init ==
  /\ teams = [t \in TeamIds |-> NoTeam]
  /\ nextTeamId = 1
  /\ racks = [r \in RackIds |-> NoRack]
  /\ nextRackId = 1
  /\ snaps = <<>>
  /\ md = {}
  /\ ledger = [f \in FileIds |-> NoMeta]
  /\ nextFileId = 1
  /\ procs = [p \in Procs |-> IdleProc]
  /\ flight = [c \in Slots |-> IdleReq]
  /\ resp = Idle

\* res.status(..).json(..): the response leaves and the next request is taken
Reply ==
  /\ resp # Idle
  /\ resp' = Idle
  /\ UNCHANGED <<teams, nextTeamId, rackVars, snaps, uploadVars, flight>>

Absent == [given |-> FALSE, ids |-> <<>>]
Given(q) == [given |-> TRUE, ids |-> q]

\* request bodies of POST /api/teams: the well-formed ones, and one body for
\* each way of being refused
CreateBodies ==
  {[siteName |-> s, location |-> "DL", leader |-> l, members |-> ms] :
     s \in Sites, l \in {None, "L1", "L2"}, ms \in {Absent, Given(<<"M1">>)}}
  \cup {[siteName |-> "S1", location |-> "DL", leader |-> l, members |-> Absent] :
          l \in {"M1", GhostUser}}
  \cup {[siteName |-> "S1", location |-> "DL", leader |-> "L1", members |-> Given(q)] :
          q \in {<<"M1", "M1">>, <<"L2">>, <<GhostUser>>}}
  \cup {[siteName |-> None, location |-> "DL", leader |-> "L1", members |-> Absent],
        [siteName |-> "S1", location |-> None, leader |-> "L1", members |-> Absent]}

\* request bodies of PUT /api/teams/:id
UpdateBodies ==
  {[siteName |-> s, members |-> Absent, status |-> None] : s \in Sites \cup {None}}
  \cup {[siteName |-> None, members |-> Given(q), status |-> None] :
          q \in {<<>>, <<"M1">>, <<"M1", "M1">>, <<"L2">>, <<GhostUser>>}}
  \cup {[siteName |-> None, members |-> Absent, status |-> st] :
          st \in {"Active", "Completed"}}
  \cup {[siteName |-> "S2", members |-> Given(<<"M1">>), status |-> "Completed"]}

MemberIds == {"M1", "L2", GhostUser}

\* a request is taken when the previous response has left
TeamNext ==
  \/ /\ resp = Idle
     /\ \E u \in Users, b \in CreateBodies :
          createTeam(u, b.siteName, b.location, b.leader, b.members)
  \/ /\ resp = Idle
     /\ \E u \in Users, t \in TeamIds, b \in UpdateBodies :
          updateTeam(u, t, b.siteName, b.members, b.status)
  \/ /\ resp = Idle
     /\ \E u \in Users, t \in TeamIds : deleteTeam(u, t)
  \/ /\ resp = Idle
     /\ \E u \in Users, t \in TeamIds, m \in MemberIds : addTeamMember(u, t, m)
  \/ /\ resp = Idle
     /\ \E u \in Users, t \in TeamIds, m \in MemberIds : removeTeamMember(u, t, m)
  \/ /\ resp = Idle
     /\ \E u \in Users, t \in TeamIds : completeTeamWork(u, t)
  \/ Reply

TeamSpec == Init /\ [][TeamNext]_vars


\* the team requests that set the scene of the rack and snapshot requests
SceneBodies ==
  {[siteName |-> s, location |-> "DL", leader |-> l, members |-> ms] :
     s \in Sites, l \in Leaders, ms \in {Absent, Given(<<"M1">>)}}

RackPrincipals == {"A", "L1", "M1"}

\* request bodies of PUT /api/racks/:id
RackBodies == {[partNo |-> p] : p \in PartNos} \cup {[scannedBy |-> "L2"]}

RackNext ==
  \/ /\ resp = Idle
     /\ \E b \in SceneBodies : createTeam("A", b.siteName, b.location, b.leader, b.members)
  \/ /\ resp = Idle
     /\ \E t \in TeamIds : completeTeamWork("A", t)
  \/ /\ resp = Idle
     /\ \E t \in TeamIds : deleteTeam("A", t)
  \/ /\ resp = Idle
     /\ \E u \in RackPrincipals, rn \in RackNos \cup {None}, pn \in PartNos \cup {None},
           s \in Sites \cup {None}, t \in TeamIds \cup {0} :
          /\ (rn = None \/ pn = None \/ s = None)
               => (u = "A" /\ Cardinality({x \in {rn, pn, s} : x = None}) = 1
                   /\ (pn = None \/ pn = "P1") /\ (s = None \/ s = "S1"))
          /\ createRack(u, rn, pn, s, t)
  \/ /\ resp = Idle
     /\ \E u \in RackPrincipals, s \in {None, "S1"}, t \in TeamIds \cup {0} :
          /\ u # "A" => t = 0
          /\ getRacks(u, s, t)
  \/ /\ resp = Idle
     /\ \E u \in RackPrincipals, r \in RackIds \cup {InvalidId}, b \in RackBodies :
          /\ (r = InvalidId \/ u = "M1") => b = [partNo |-> "P1"]
          /\ updateRack(u, r, b)
  \/ /\ resp = Idle
     /\ \E u \in RackPrincipals, r \in RackIds \cup {InvalidId} : deleteRack(u, r)
  \/ /\ resp = Idle
     /\ \E u \in RackPrincipals, r \in RackIds \cup {InvalidId}, c \in BOOLEAN :
          getRackById(u, r, c)
  \/ Reply

RackSpec == Init /\ [][RackNext]_vars

ExportNext ==
  \/ /\ resp = Idle
     /\ \E b \in SceneBodies : createTeam("A", b.siteName, b.location, b.leader, b.members)
  \/ /\ resp = Idle
     /\ \E t \in TeamIds : completeTeamWork("A", t)
  \/ /\ resp = Idle
     /\ \E u \in Users, n \in 0..MaxSnaps, t \in TeamIds \cup {0}, s \in {"S1", None} :
          createExportedSnapshots(u, n, t, s)
  \/ Reply

ExportSpec == Init /\ [][ExportNext]_vars

\* the steps of the requests of master_controller.js in flight
MasterSteps ==
  \/ \E p \in Procs : uploadCreateMeta(p)
  \/ \E p \in Procs : uploadInsertMany(p)
  \/ \E p \in Procs : uploadStamp(p)
  \/ \E p \in Procs : uploadCommit(p)
  \/ \E p \in Procs : uploadAbort(p)
  \/ \E p \in Procs : deleteFindById(p)
  \/ \E p \in Procs : deleteMany(p)
  \/ \E p \in Procs : deleteOne(p)
  \/ \E p \in Procs : deleteCommit(p)
  \/ \E p \in Procs : deleteAbort(p)
  \/ \E p \in Procs : uploadCommitFails(p)
  \/ \E p \in Procs : deleteCommitFails(p)
  \/ \E p \in Procs : Finish(p)

\* the steps of the requests of uploadcontroller.js in flight
LegacySteps ==
  \/ \E p \in Procs, k \in 0..MaxEntries : legacyInsertMany(p, k)
  \/ \E p \in Procs, ok \in BOOLEAN : legacyCreateMeta(p, ok)

\* concurrent ledger requests of both controllers
UploadNext ==
  \/ \E p \in Procs, e \in EntryLists, f \in Filenames : uploadBegin(p, e, f)
  \/ \E p \in Procs, id \in FileIds \cup {InvalidId} : deleteBegin(p, id)
  \/ \E p \in Procs, e \in EntryLists, f \in Filenames : legacyBegin(p, e, f)
  \/ \E p \in Procs, started \in BOOLEAN : uploadFailEarly(p, started)
  \/ \E p \in Procs, started \in BOOLEAN : deleteFailEarly(p, started)
  \/ MasterSteps
  \/ LegacySteps

UploadSpec == Init /\ [][UploadNext]_vars

NoneInFlight == \A q \in Procs : procs[q].pc = "idle"

\* the requests of master_controller.js handled one after the other
UploadSeqNext ==
  \/ /\ NoneInFlight
     /\ \E e \in EntryLists, f \in Filenames : uploadBegin("p1", e, f)
  \/ /\ NoneInFlight
     /\ \E id \in FileIds \cup {InvalidId} : deleteBegin("p1", id)
  \/ /\ NoneInFlight
     /\ \E started \in BOOLEAN : uploadFailEarly("p1", started)
  \/ /\ NoneInFlight
     /\ \E started \in BOOLEAN : deleteFailEarly("p1", started)
  \/ MasterSteps

UploadSeqSpec == Init /\ [][UploadSeqNext]_vars

\* concurrent createRack requests, followed step by step, on teams an admin sets up
RackRaceNext ==
  \/ /\ resp = Idle
     /\ \E s \in Sites : createTeam("A", s, "DL", "L1", Given(<<"M1">>))
  \/ \E c \in Slots, u \in {"A", "M1"}, rn \in RackNos \cup {None}, pn \in PartNos,
        s \in Sites, t \in TeamIds \cup {0} :
       /\ (u = "M1" \/ rn = None) => (pn = "P1" /\ s = "S1")
       /\ createRackFindTeam(c, u, rn, pn, s, t)
  \/ \E c \in Slots : createRackFindRack(c)
  \/ \E c \in Slots : createRackInsert(c)
  \/ \E c \in Slots : Leave(c)
  \/ Reply

RackRaceSpec == Init /\ [][RackRaceNext]_vars

\* concurrent addTeamMember requests, followed step by step, with updateTeam,
\* removeTeamMember and deleteTeam requests handled between their steps
TeamRaceNext ==
  \/ /\ resp = Idle
     /\ \E s \in Sites : createTeam("A", s, "DL", "L1", Absent)
  \/ \E c \in Slots, u \in {"L1", "L2"}, t \in TeamIds, m \in {"M1", "L2"} :
       addTeamMemberFind(c, u, t, m)
  \/ \E c \in Slots : addTeamMemberSave(c)
  \/ /\ resp = Idle
     /\ \E t \in TeamIds, q \in {<<>>, <<"M1">>, <<"M1", "M1">>} :
          updateTeam("A", t, None, Given(q), None)
  \/ /\ resp = Idle
     /\ \E t \in TeamIds : removeTeamMember("L1", t, "M1")
  \/ /\ resp = Idle
     /\ \E t \in TeamIds : deleteTeam("A", t)
  \/ \E c \in Slots : Leave(c)
  \/ Reply

TeamRaceSpec == Init /\ [][TeamRaceNext]_vars

\* teams that are completed and changed again by an admin, with the rack and
\* snapshot requests of their former leader and member
ArchiveNext ==
  \/ /\ resp = Idle
     /\ \E s \in Sites : createTeam("A", s, "DL", "L1", Given(<<"M1">>))
  \/ /\ resp = Idle
     /\ \E u \in RackPrincipals, t \in TeamIds : completeTeamWork(u, t)
  \/ /\ resp = Idle
     /\ \E u \in {"A", "L1"}, t \in TeamIds : addTeamMember(u, t, "M1")
  \/ /\ resp = Idle
     /\ \E t \in TeamIds : updateTeam("L1", t, None, Given(<<"M1">>), None)
  \/ /\ resp = Idle
     /\ \E t \in TeamIds : removeTeamMember("L1", t, "M1")
  \/ /\ resp = Idle
     /\ \E u \in RackPrincipals, s \in Sites, t \in TeamIds :
          createRack(u, "R1", "P1", s, t)
  \/ /\ resp = Idle
     /\ \E u \in RackPrincipals : getRacks(u, None, 0)
  \/ /\ resp = Idle
     /\ \E u \in RackPrincipals, r \in RackIds, c \in BOOLEAN :
          /\ u # "L1" => c
          /\ getRackById(u, r, c)
  \/ /\ resp = Idle
     /\ \E u \in RackPrincipals, r \in RackIds : updateRack(u, r, [partNo |-> "P2"])
  \/ /\ resp = Idle
     /\ \E u \in RackPrincipals, r \in RackIds : deleteRack(u, r)
  \/ /\ resp = Idle
     /\ \E u \in RackPrincipals, t \in TeamIds :
          createExportedSnapshots(u, MaxSnaps, t, "S1")
  \/ Reply

ArchiveSpec == Init /\ [][ArchiveNext]_vars

\* a request is taken when no other is being handled
Quiet == resp = Idle /\ NoneInFlight

AppCallers == {"A", "L2"}

\* the handlers of all four controllers, one request at a time, around one
\* rack and one upload
AppNext ==
  \/ /\ Quiet
     /\ \E u \in {"A", "M1"}, s \in {"S1", None} :
          createTeam(u, s, "DL", "L1", Given(<<"M1">>))
  \/ /\ Quiet
     /\ \E u \in AppCallers, t \in TeamIds :
          \/ updateTeam(u, t, None, Given(<<GhostUser>>), None)
          \/ updateTeam(u, t, None, Absent, "Completed")
  \/ /\ Quiet
     /\ \E u \in AppCallers, t \in TeamIds : deleteTeam(u, t)
  \/ /\ Quiet
     /\ \E u \in AppCallers, t \in TeamIds, m \in {"M1", "L2"} : addTeamMember(u, t, m)
  \/ /\ Quiet
     /\ \E u \in AppCallers, t \in TeamIds : removeTeamMember(u, t, "M1")
  \/ /\ Quiet
     /\ \E u \in AppCallers, t \in TeamIds : completeTeamWork(u, t)
  \/ /\ Quiet /\ nextRackId = 1
     /\ \E u \in {"A", "M1"}, pn \in {"P1", None}, t \in TeamIds \cup {0} :
          createRack(u, "R1", pn, "S1", t)
  \/ /\ Quiet
     /\ \E u \in {"A", GhostUser} : getRacks(u, None, 0)
  \/ /\ Quiet
     /\ \E u \in AppCallers, r \in RackIds \cup {InvalidId} : getRackById(u, r, TRUE)
  \/ /\ Quiet
     /\ \E u \in AppCallers, r \in RackIds \cup {InvalidId} :
          updateRack(u, r, [partNo |-> "P2"])
  \/ /\ Quiet
     /\ \E u \in AppCallers, r \in RackIds \cup {InvalidId} : deleteRack(u, r)
  \/ /\ Quiet
     /\ \E u \in AppCallers, n \in 0..MaxSnaps, t \in TeamIds \cup {0} :
          createExportedSnapshots(u, n, t, "S1")
  \/ /\ Quiet /\ nextFileId = 1
     /\ \E e \in EntryLists : uploadBegin("p1", e, "f1")
  \/ /\ Quiet
     /\ \E id \in FileIds \cup {InvalidId} : deleteBegin("p1", id)
  \/ /\ Quiet /\ nextFileId = 1
     /\ \E e \in EntryLists : legacyBegin("p1", e, "f1")
  \/ /\ resp = Idle
     /\ (MasterSteps \/ LegacySteps)
  \/ Reply

AppSpec == Init /\ [][AppNext]_vars

(***************************************************************************)
(* Properties of the team registry                                         *)
(***************************************************************************)
\* the grant of the authorization matrix for leader-or-admin rows: the
\* principal is admin, or a team_leader whose id is the team's teamLeader
Granted(u, team) ==
  Role(u) = "admin" \/ (Role(u) = "team_leader" /\ team.teamLeader = u)

\* C1: a completeTeamWork request that succeeds leaves its team with
\* members = [], teamLeader = null and status = Completed.
CompleteClearsTeam ==
  (resp.op = "completeTeamWork" /\ resp.code = 200)
    => /\ teams[resp.team].members = <<>>
       /\ teams[resp.team].teamLeader = None
       /\ teams[resp.team].status = "Completed"

\* C1 witness: the team's leader has completed a team
CompleteClearsTeamWitness ==
  /\ resp.op = "completeTeamWork" /\ resp.code = 200 /\ resp.user \in Leaders
  /\ teams[resp.team].status = "Completed"

\* C2: in every reachable state, every team whose status is Completed has
\* an empty members list and a null teamLeader.
CompletedTeamIsCleared ==
  \A t \in TeamIds :
    teams[t].status = "Completed"
      => (teams[t].members = <<>> /\ teams[t].teamLeader = None)

\* C3: once a team's status is Completed, no step brings that team back to
\* status Active.
CompletionIrreversible ==
  [][\A t \in TeamIds :
       teams[t].status = "Completed" => teams'[t].status # "Active"]_vars

\* C9: addTeamMember(T, M) by an authorized principal for a team_member M
\* adds M when M is not yet a member and otherwise is refused with a
\* Conflict-class status (400 or 409) and changes no team; removeTeamMember
\* for a user who is not in T.members is refused and changes no team.
AddRemoveMemberIdempotence ==
  [][/\ (/\ resp'.op = "addTeamMember"
          /\ Exists(resp'.team)
          /\ Granted(resp'.user, teams[resp'.team])
          /\ Role(resp'.arg) = "team_member")
         => IF resp'.arg \in Range(teams[resp'.team].members)
              THEN resp'.code \in {400, 409} /\ teams' = teams
              ELSE /\ resp'.code = 200
                   /\ teams'[resp'.team].members
                        = Append(teams[resp'.team].members, resp'.arg)
     /\ (/\ resp'.op = "removeTeamMember"
          /\ Exists(resp'.team)
          /\ Granted(resp'.user, teams[resp'.team])
          /\ resp'.arg \notin Range(teams[resp'.team].members))
         => (resp'.code \in {400, 404} /\ teams' = teams)]_vars

\* C9 witness: the second addTeamMember of a member was refused with 400
AddRemoveMemberIdempotenceWitness ==
  /\ resp.op = "addTeamMember" /\ resp.code = 400
  /\ Role(resp.arg) = "team_member"
  /\ resp.arg \in Range(teams[resp.team].members)
  /\ Len(teams[resp.team].members) = 1

LeaderOrAdminOps ==
  {"updateTeam", "deleteTeam", "addTeamMember", "removeTeamMember",
   "completeTeamWork", "createExportedSnapshots"}

\* C10: a leader-or-admin operation on an existing team, Active or
\* Completed, is refused exactly when the principal is neither admin nor
\* the team_leader who leads the team; the refusal is 403 and nothing changes.
LeaderOrAdminMatrix ==
  [][(resp'.op \in LeaderOrAdminOps /\ Exists(resp'.team))
       => IF Granted(resp'.user, teams[resp'.team])
            THEN resp'.code \notin {401, 403}
            ELSE /\ resp'.code = 403
                 /\ UNCHANGED <<teams, nextTeamId, rackVars, snaps, uploadVars, flight>>]_vars

ListedRacks == {resp.rows[i].rack : i \in DOMAIN resp.rows}

\* C5: getRacks of a team_leader without query refinement answers 200 with
\* exactly the racks whose team has that principal as teamLeader (the empty
\* list when the principal leads no team).
LeaderListsExactlyLedRacks ==
  (resp.op = "getRacks" /\ Role(resp.user) = "team_leader"
     /\ resp.arg = None /\ resp.team = 0)
    => /\ resp.code = 200
       /\ ListedRacks = {r \in RackIds :
                           /\ RackExists(r)
                           /\ Exists(racks[r].team)
                           /\ teams[racks[r].team].teamLeader = resp.user}

\* C5 witness: the list of a leader holds racks of two teams that leader leads
LeaderListsExactlyLedRacksWitness ==
  /\ resp.op = "getRacks" /\ Role(resp.user) = "team_leader"
  /\ resp.arg = None /\ resp.team = 0
  /\ Cardinality({racks[r].team : r \in ListedRacks}) = 2

(***************************************************************************)
(* Properties of the upload ledger                                         *)
(***************************************************************************)
\* the stored rows that upload number s has inserted
Rows(rows, s) == {r \in rows : r.src = s}

\* process p takes the step that commits its delete with 200
DeleteSucceeds(p) ==
  /\ procs[p].op = "delete" /\ procs[p].pc = "commit"
  /\ procs'[p].pc = "done" /\ procs'[p].code = 200

\* process p takes the step that commits its upload of master_controller.js
UploadSucceeds(p) ==
  /\ procs[p].op = "upload" /\ procs[p].pc = "commit"
  /\ procs'[p].pc = "done" /\ procs'[p].code = 201

\* the upload of N entries creates one ledger entry with recordCount N and N
\* rows tagged with it
UploadStoresBatch(p) ==
  LET f == procs[p].id
      n == Len(procs[p].entries)
  IN /\ ledger[f].status = "absent"
     /\ ledger' = [ledger EXCEPT ![f] = [filename |-> procs[p].filename,
                                         recordCount |-> n, status |-> "present"]]
     /\ Rows(md, f) = {}
     /\ md' \ md = Rows(md', f)
     /\ md \subseteq md'
     /\ Cardinality(Rows(md', f)) = n
     /\ \A r \in Rows(md', f) : r.fileId = f /\ r.uploadBatch = procs[p].filename

\* C6: with requests handled one after the other, an upload of N
\* entries stores one ledger entry and N rows, and a successful delete of a
\* ledger entry removes exactly the entry and the rows of that upload,
\* reports deletedRecordsCount = N, and leaves every other row in place, also
\* when other uploads used the same filename.
RoundTripRemovesExactlyOwnRows ==
  [][\A p \in Procs :
       /\ UploadSucceeds(p) => UploadStoresBatch(p)
       /\ DeleteSucceeds(p) =>
            LET f == procs[p].id
            IN /\ procs'[p].count = ledger[f].recordCount
               /\ md' = md \ Rows(md, f)
               /\ ledger' = [ledger EXCEPT ![f] = NoMeta]]_vars

\* upload number s has stored nothing
NothingStored(rows, metas, s) == Rows(rows, s) = {} /\ metas[s].status = "absent"

\* upload number s is stored whole: its ledger entry, and all its rows tagged
StoredWhole(rows, metas, s) ==
  /\ metas[s].status = "present"
  /\ Rows(rows, s) # {}
  /\ metas[s].recordCount = Cardinality(Rows(rows, s))
  /\ \A r \in Rows(rows, s) : r.fileId = s /\ r.uploadBatch = metas[s].filename

\* C7: a bulk upload is atomic: a step that stores anything of an upload
\* stores its ledger entry with recordCount N together with all N rows tagged
\* with that entry; no step leaves rows without the entry or the entry
\* without its rows.
BulkUploadAtomic ==
  [][\A s \in FileIds :
       NothingStored(md, ledger, s)
         => NothingStored(md', ledger', s) \/ StoredWhole(md', ledger', s)]_vars

\* C8: deleteUploadedFile is atomic: the step that removes a ledger entry
\* leaves no row with that entry's fileId, rows are removed only in a step
\* that removes a ledger entry they are linked to, and a delete whose id
\* resolves to no entry ends with 404 (500 when the store call throws) and
\* removes nothing.
DeleteUploadedFileAtomic ==
  [][/\ \A f \in FileIds :
          (ledger[f].status = "present" /\ ledger'[f].status = "absent")
            => \A r \in md' : r.fileId # f
     /\ (md \ md' # {})
          => \E f \in FileIds :
               /\ ledger[f].status = "present" /\ ledger'[f].status = "absent"
               /\ md \ md' \subseteq LinkedRows(md, f, ledger[f].filename)
     /\ \A p \in Procs :
          (/\ procs[p].op = "delete" /\ procs[p].pc = "findById"
           /\ ~(procs[p].id \in FileIds /\ ledger[procs[p].id].status = "present")
           /\ procs'[p] # procs[p])
            => /\ procs'[p].pc = "done"
               /\ procs'[p].code \in {404, 500}
               /\ procs'[p].count = 0
               /\ md' = md /\ ledger' = ledger]_vars

\* C8 witness: one delete has removed an entry with its rows and answered
\* 200, another has answered 404
DeleteUploadedFileAtomicWitness ==
  /\ \E p \in Procs :
       /\ procs[p].op = "delete" /\ procs[p].pc = "done" /\ procs[p].code = 200
       /\ procs[p].count > 0
       /\ ledger[procs[p].id].status = "absent"
       /\ Rows(md, procs[p].id) = {}
  /\ \E p \in Procs :
       procs[p].op = "delete" /\ procs[p].pc = "done" /\ procs[p].code = 404

(***************************************************************************)
(* Further properties of the team registry                                 *)
(***************************************************************************)
\* what a createTeam step of principal u with body b has to satisfy
CreateTeamRules(u, b) ==
  LET code == resp'.code
      t == nextTeamId
  IN /\ Role(u) = "team_member" => code = 403
     /\ (Role(u) = "team_leader" /\ b.leader # None /\ b.leader # u) => code = 403
     /\ (Role(u) = "admin" /\ code = 201)
          => /\ b.leader \in Users
             /\ Role(b.leader) \in {"team_leader", "admin"}
             /\ teams'[t].teamLeader = b.leader
     /\ (Role(u) = "team_leader" /\ code = 201) => teams'[t].teamLeader = u
     /\ code = 201
          => /\ ~Exists(t)
             /\ teams'[t].status = "Active"
             /\ teams'[t].members = (IF b.members.given THEN b.members.ids ELSE <<>>)
             /\ \A o \in TeamIds \ {t} : teams'[o] = teams[o]
     /\ code # 201 => teams' = teams

\* C11: createTeam by an admin creates a team only with a supplied leader id
\* of an existing team_leader or admin, who becomes teamLeader; by a
\* team_leader only with the caller as teamLeader, a different supplied leader
\* being refused with 403; a team_member is always refused with 403; a created
\* team is Active with the supplied members, and a refused request creates
\* no team.
CreateTeamLeaderRules ==
  [][\A u \in Users, b \in CreateBodies :
       (resp = Idle /\ createTeam(u, b.siteName, b.location, b.leader, b.members))
         => CreateTeamRules(u, b)]_vars

(***************************************************************************)
(* Further properties of the rack inventory                                *)
(***************************************************************************)
\* a rack of site s holds the pair (rackNo, partNo)
PairUsedAt(rs, s, rackNo, partNo) ==
  \E r \in RackIds :
    /\ rs[r].partNo # None
    /\ rs[r].siteName = s /\ rs[r].rackNo = rackNo /\ rs[r].partNo = partNo

\* no two racks of one site share (rackNo, partNo)
PairsUniquePerSite(rs) ==
  \A a, b \in RackIds :
    (a # b /\ rs[a].partNo # None /\ rs[b].partNo # None /\ rs[a].siteName = rs[b].siteName)
      => ~(rs[a].rackNo = rs[b].rackNo /\ rs[a].partNo = rs[b].partNo)

\* the principal may create racks for team t
MayCreateRackFor(u, t) ==
  \/ Role(u) = "admin"
  \/ (Role(u) = "team_leader" /\ teams[t].teamLeader = u)
  \/ (Role(u) = "team_member" /\ u \in Range(teams[t].members))

\* C12: with requests handled one at a time, after every createRack,
\* updateRack or deleteRack no two racks of one site share (rackNo, partNo); a
\* createRack whose pair is used at its site is rejected and inserts nothing;
\* a createRack of an allowed principal whose pair is used only at another
\* site is accepted.
RackPairUniquePerSite ==
  [][/\ PairsUniquePerSite(racks')
     /\ \A u \in RackPrincipals, rn \in RackNos, pn \in PartNos, s \in Sites, t \in TeamIds :
          (resp = Idle /\ createRack(u, rn, pn, s, t))
            => /\ PairUsedAt(racks, s, rn, pn) => (resp'.code # 201 /\ racks' = racks)
               /\ (~PairUsedAt(racks, s, rn, pn) /\ MayCreateRackFor(u, t)
                   /\ nextRackId \in RackIds)
                    => (resp'.code = 201 /\ PairUsedAt(racks', s, rn, pn))]_vars

\* C13: createRack stamps scannedBy with the creating principal and team with
\* the team resolved from siteName, and no step changes the scannedBy of a
\* rack that stays in the store.
ScannedByImmutable ==
  [][/\ (resp'.op = "createRack" /\ resp'.code = 201 /\ resp.op = "idle")
          => /\ racks'[resp'.rack].scannedBy = resp'.user
             /\ racks'[resp'.rack].team = resp'.team
             /\ resp'.team \in FindOneTeam(resp'.arg)
     /\ \A r \in RackIds :
          (racks[r].partNo # None /\ racks'[r].partNo # None)
            => racks'[r].scannedBy = racks[r].scannedBy]_vars

\* the principal of the response has a relation to the team of rack r
RelatedToRack(u, r) ==
  \/ Role(u) = "admin"
  \/ (Exists(racks[r].team) /\ teams[racks[r].team].teamLeader = u)
  \/ (Exists(racks[r].team) /\ u \in Range(teams[racks[r].team].members))

\* C14: getRackById answers 404 for an id that is syntactically invalid or
\* matches no rack, 403 without rack data for an existing rack whose team
\* the principal neither leads nor belongs to (admins apart), and the rack
\* otherwise.
GetRackByIdOutcomes ==
  resp.op = "getRackById"
    => IF resp.rack = InvalidId \/ ~RackExists(resp.rack)
         THEN resp.code = 404
         ELSE IF ~RelatedToRack(resp.user, resp.rack)
                THEN resp.code = 403 /\ resp.rows = <<>>
                ELSE /\ resp.code = 200
                     /\ Len(resp.rows) = 1
                     /\ resp.rows[1].rack = resp.rack

\* some stored rack holds (rackNo, partNo)
PairStored(rackNo, partNo) ==
  \E r \in RackIds :
    racks[r].partNo # None /\ racks[r].rackNo = rackNo /\ racks[r].partNo = partNo

\* C15: the duplicate check of createRack and its insert are two steps: the
\* check rejects a request (400, nothing inserted) when a rack with its
\* (partNo, rackNo) is stored at that moment, and the insert of a request that
\* passed the check stores the rack whatever has been stored in between; so
\* two concurrent requests with the same pair can both insert.
CreateRackCheckNotAtomic ==
  [][\A c \in Slots :
       /\ (flight[c].pc = "findRack" /\ flight'[c] # flight[c])
            => /\ racks' = racks
               /\ IF PairStored(flight[c].rackNo, flight[c].partNo)
                    THEN flight'[c].pc = "done" /\ flight'[c].code = 400
                    ELSE flight'[c].pc = "create"
       /\ (flight[c].pc = "create" /\ flight'[c] # flight[c])
            => /\ flight'[c].pc = "done" /\ flight'[c].code = 201
               /\ racks'[nextRackId].rackNo = flight[c].rackNo
               /\ racks'[nextRackId].partNo = flight[c].partNo
               /\ \A r \in RackIds \ {nextRackId} : racks'[r] = racks[r]]_vars

\* C15 witness: two concurrent requests with the same pair for the same site
\* have both been answered 201 and both racks are stored
CreateRackCheckNotAtomicWitness ==
  /\ \A c \in Slots : flight[c].op = "createRack" /\ flight[c].pc = "done" /\ flight[c].code = 201
  /\ \E a, b \in RackIds :
       /\ a # b /\ racks[a].partNo # None
       /\ racks[a].rackNo = racks[b].rackNo /\ racks[a].partNo = racks[b].partNo
       /\ racks[a].siteName = racks[b].siteName

(***************************************************************************)
(* Properties across the controllers                                       *)
(***************************************************************************)
\* validation, unauthenticated, forbidden, not-found
ClientErrors == {400, 401, 403, 404}

\* C16: a request of the team, rack, master-description or export-snapshot
\* controllers that is answered 400, 401, 403 or 404 leaves teams, racks,
\* master descriptions, the upload ledger and the snapshots as they were:
\* the answering step writes nothing, and such an answer is only given at
\* the first step of a request or at the lookup of the ledger entry, before
\* which the request has written nothing.
ErrorsPrecedeWrites ==
  [][/\ (resp = Idle /\ resp'.code \in ClientErrors)
          => UNCHANGED <<teams, racks, snaps, md, ledger>>
     /\ \A p \in Procs :
          /\ (procs[p].pc # "done" /\ procs'[p].pc = "done"
              /\ procs'[p].code \in ClientErrors)
               => /\ UNCHANGED <<teams, racks, snaps, md, ledger>>
                  /\ procs[p].pc \in {"idle", "findById"}
                  /\ procs[p].txn = NoTxn
          /\ (procs[p].pc \in {"idle", "findById"} /\ procs'[p] # procs[p])
               => UNCHANGED <<teams, racks, snaps, md, ledger>>]_vars

\* C16 witness: with a team, a rack and master description rows stored, a
\* delete of an unknown ledger id has been answered 404
ErrorsPrecedeWritesWitness ==
  /\ \E p \in Procs :
       procs[p].op = "delete" /\ procs[p].pc = "done" /\ procs[p].code = 404
  /\ md # {}
  /\ \E t \in TeamIds : Exists(t)
  /\ \E r \in RackIds : RackExists(r)

(***************************************************************************)
(* Properties of the sessions of master_controller.js                      *)
(***************************************************************************)
\* the request of process p has left the handler
Exited(p) == procs[p].op \in {"upload", "delete"} /\ procs[p].pc = "done"

\* C17: when uploadMasterDescriptions or deleteUploadedFile has left the
\* handler on any path, the session it started is ended, a transaction it
\* started is committed or aborted, and exactly one response was written, an
\* error response when a step failed.
SessionsEndAndFailuresAnswered ==
  \A p \in Procs :
    Exited(p) =>
      /\ procs[p].session \in {"none", "ended"}
      /\ procs[p].txnState \in {"none", "committed", "aborted"}
      /\ procs[p].sent = 1
      /\ procs[p].code \in {200, 201, 400, 404, 500}


(***************************************************************************)
(* Properties of the join of racks with master descriptions                *)
(***************************************************************************)
\* the material of an output row is that of one MasterDescription row with
\* the rack's partNo, and null when there is none
MaterialOfOneRow(row) ==
  LET ms == {m \in md : m.partNo = racks[row.rack].partNo}
  IN IF ms = {} THEN row.material = 0
     ELSE \E m \in ms : row.material = RowNo(m)

\* C18: in the answer of getRacks and of getRackById every rack appears
\* exactly once, however many MasterDescription rows share its partNo, with
\* the material of exactly one of those rows, or null when there is none.
SingleMatchJoinOnRead ==
  (resp.op \in {"getRacks", "getRackById"} /\ resp.code = 200)
    => /\ \A i, j \in DOMAIN resp.rows :
            resp.rows[i].rack = resp.rows[j].rack => i = j
       /\ \A i \in DOMAIN resp.rows : MaterialOfOneRow(resp.rows[i])


(***************************************************************************)
(* Properties of team membership under concurrent requests                 *)
(***************************************************************************)
\* C19: in every reachable state, under every interleaving of concurrent
\* addTeamMember and updateTeam requests on the same team, the members of a
\* team hold no id twice and only ids of principals with role team_member.
MembersAreASet ==
  \A t \in TeamIds :
    Exists(t) =>
      /\ \A i, j \in DOMAIN teams[t].members :
           teams[t].members[i] = teams[t].members[j] => i = j
      /\ \A i \in DOMAIN teams[t].members : Role(teams[t].members[i]) = "team_member"


(***************************************************************************)
(* Properties of completed teams                                           *)
(***************************************************************************)
\* team t is as completeTeamWork leaves it
Archived(t) ==
  /\ Exists(t)
  /\ teams[t].status = "Completed"
  /\ teams[t].teamLeader = None
  /\ teams[t].members = <<>>

\* the racks of team t in the collection rs
RacksOf(rs, t) == {r \in RackIds : rs[r] # NoRack /\ rs[r].team = t}

\* the export snapshots of team t in ss
SnapsOf(ss, t) == SelectSeq(ss, LAMBDA x : x.team = t)

\* a request of a principal who is not an admin is answered while t is archived
NonAdminAnswered(t) ==
  /\ Archived(t)
  /\ resp = Idle /\ resp' # Idle
  /\ Role(resp'.user) # "admin"

\* C20: once completeTeamWork has left team T completed with no leader and no
\* members, and until an admin changes T, every request of a non-admin to
\* read by id, update, delete or create a rack of T, or to create export
\* snapshots for T, is refused and writes nothing, getRacks of a non-admin
\* lists none of T's racks, no non-admin request changes T, and no admin
\* request is answered 403.
ArchivedTeamClosedToNonAdmins ==
  [][\A t \in TeamIds :
       /\ NonAdminAnswered(t) =>
            /\ teams'[t] = teams[t]
            /\ RacksOf(racks', t) = RacksOf(racks, t)
            /\ \A r \in RacksOf(racks, t) : racks'[r] = racks[r]
            /\ SnapsOf(snaps', t) = SnapsOf(snaps, t)
            /\ (resp'.op = "getRackById" /\ resp'.rack \in RacksOf(racks, t))
                 => (resp'.code \in {403, 500} /\ resp'.rows = <<>>)
            /\ (resp'.op \in {"updateRack", "deleteRack"} /\ resp'.rack \in RacksOf(racks, t))
                 => resp'.code = 403
            /\ (resp'.op \in {"createRack", "createExportedSnapshots"} /\ resp'.team = t)
                 => resp'.code = 403
            /\ resp'.op = "getRacks"
                 => \A i \in DOMAIN resp'.rows : resp'.rows[i].rack \notin RacksOf(racks, t)
       /\ (Archived(t) /\ resp = Idle /\ resp' # Idle /\ Role(resp'.user) = "admin")
            => resp'.code # 403]_vars

\* the former leader of an archived team with a rack is refused that rack
ArchivedTeamClosedToNonAdminsWitness ==
  \E t \in TeamIds :
    /\ Archived(t)
    /\ resp.op = "getRackById" /\ resp.user = "L1" /\ resp.code = 403
    /\ resp.rack \in RacksOf(racks, t)

====
